---- MODULE Spec2Model ----
(***************************************************************************)
(* Evil Hangman: the candidate-refinement engine of src/evil_hangman.py    *)
(* (class EvilHangman).  A word is a sequence of one-character strings, a  *)
(* pattern is a sequence of letters and blanks, and Python lists are       *)
(* sequences, so that order and duplicates are kept as the code keeps them.*)
(***************************************************************************)
EXTENDS Integers, Sequences, FiniteSets, TLC

VARIABLES all_words, word_length, max_guesses, guesses_left, guessed_letters,
          current_pattern, possible_words, game_over, won, message, ret,
          calls

\* The fields start_game resets and make_guess refines.
session == <<word_length, max_guesses, guesses_left, guessed_letters,
             current_pattern, possible_words, game_over, won>>

\* calls holds, for each request thread of the web server, the make_guess
\* call it is in the middle of: its position and its local variables.
vars == <<all_words, word_length, max_guesses, guesses_left, guessed_letters,
          current_pattern, possible_words, game_over, won, message, ret,
          calls>>

-----------------------------------------------------------------------------
(* Bounds of the model *)

\* Longest word list stored under the freely chosen length of the index.
MaxWords == 3

\* Largest guess budget a caller passes to start_game.
MaxGuesses == 4

-----------------------------------------------------------------------------
(* The dictionary index, as _load_dictionary leaves it *)

\* The blank marker of a pattern.
Blank == "_"

\* All two-letter words over a and b.
Pool == [1..2 -> {"a", "b"}]

\* The non-empty word lists (order kept, duplicates allowed) of at most
\* MaxWords words: _load_dictionary appends every line of the file.
WordLists == UNION {[1..k -> Pool] : k \in 1..MaxWords}

\* A fixed list of three-letter words, stored under length 3.
Words3 == << <<"a","b","c">>, <<"a","c","a">>, <<"c","a","b">>,
             <<"b","c","c">>, <<"c","c","b">> >>

\* The indexes the model starts from: every list of WordLists under length 2
\* (so also lists of one word), Words3 under length 3, nothing under length 1.
Dictionaries == {(2 :> ws) @@ (3 :> Words3) : ws \in WordLists}

-----------------------------------------------------------------------------
(* Inputs *)

\* Lengths a caller asks for: 1 is not a key of the index.
LengthInputs == {1, 2, 3}

\* Guess budgets a caller asks for: start_game takes any integer.
BudgetInputs == {-1} \cup (0..MaxGuesses)

\* Letters a caller guesses: the letters of the words (no two-letter word
\* holds c) and an uppercase letter.
GuessInputs == {"a", "b", "c", "A"}

\* str.lower() on the guesses above.
Lower(g) == CASE g = "A" -> "a"
              [] g = "B" -> "b"
              [] g = "C" -> "c"
              [] g = "Z" -> "z"
              [] OTHER -> g

-----------------------------------------------------------------------------
(* _get_word_patterns *)

\* A variant that stops at the first occurrence of the guess in the word.
InducedPattern_FirstOnly(word, pattern, guess) ==
    [i \in 1..Len(pattern) |->
        IF /\ i <= Len(word) /\ word[i] = guess
           /\ \A j \in 1..(i - 1) : word[j] # guess
        THEN guess ELSE pattern[i]]

\* A variant that starts from fresh blanks instead of a copy of the pattern.
InducedPattern_FromBlank(word, pattern, guess) ==
    [i \in 1..Len(pattern) |->
        IF i <= Len(word) /\ word[i] = guess THEN guess ELSE Blank]

\* The inner loop: a copy of the pattern with guess written at every
\* position where the word holds it.
InducedPattern(word, pattern, guess) ==
    [i \in 1..Len(pattern) |->
        IF i <= Len(word) /\ word[i] = guess THEN guess ELSE pattern[i]]

\* A variant that creates the list of a new key without its first word.
DictAppend_EmptyNew(patterns, key, word) ==
    IF \E j \in 1..Len(patterns) : patterns[j].key = key
    THEN [j \in 1..Len(patterns) |->
            IF patterns[j].key = key
            THEN [patterns[j] EXCEPT !.words = Append(@, word)]
            ELSE patterns[j]]
    ELSE Append(patterns, [key |-> key, words |-> <<>>])

\* patterns[key].append(word) on a defaultdict(list): the dict is a sequence
\* of items in insertion order, a new key goes to the end.
DictAppend(patterns, key, word) ==
    IF \E j \in 1..Len(patterns) : patterns[j].key = key
    THEN [j \in 1..Len(patterns) |->
            IF patterns[j].key = key
            THEN [patterns[j] EXCEPT !.words = Append(@, word)]
            ELSE patterns[j]]
    ELSE Append(patterns, [key |-> key, words |-> <<word>>])

RECURSIVE GroupWords(_, _, _, _)
\* The loop over possible_words, left to right.
GroupWords(words, pattern, guess, patterns) ==
    IF words = <<>> THEN patterns
    ELSE GroupWords(Tail(words), pattern, guess,
                    DictAppend(patterns,
                               InducedPattern(Head(words), pattern, guess),
                               Head(words)))

\* A variant that groups the whole word list of the session's length.
get_word_patterns_AllWords(words, pattern, guess) ==
    GroupWords(all_words[word_length], pattern, guess, <<>>)

get_word_patterns(words, pattern, guess) ==
    GroupWords(words, pattern, guess, <<>>)

-----------------------------------------------------------------------------
(* max(patterns.items(), key=lambda x: len(x[1])) *)

\* A variant that selects with min instead of max.
Larger_Smallest(best, item) ==
    IF Len(item.words) < Len(best.words) THEN item ELSE best

\* A variant in which the last of several largest items wins.
Larger_LastWins(best, item) ==
    IF Len(item.words) >= Len(best.words) THEN item ELSE best

\* One step of max: keep the item seen so far unless the next one is
\* strictly larger, so the first of several largest items wins.
Larger(best, item) ==
    IF Len(item.words) > Len(best.words) THEN item ELSE best

RECURSIVE MaxFrom(_, _)
MaxFrom(best, items) ==
    IF items = <<>> THEN best
    ELSE MaxFrom(Larger(best, Head(items)), Tail(items))

\* Defined for a non-empty dict only; on an empty one max raises ValueError.
MaxItem(items) == MaxFrom(Head(items), Tail(items))

-----------------------------------------------------------------------------
(* The engine *)

\* A variant one blank short.
AllBlank_Short(n) == [i \in 1..(n - 1) |-> Blank]

\* ['_'] * word_length
AllBlank(n) == [i \in 1..n |-> Blank]

\* A variant that looks at the first position only.
HasBlank_FirstOnly(pattern) == pattern[1] = Blank

\* '_' in current_pattern
HasBlank(pattern) == \E i \in 1..Len(pattern) : pattern[i] = Blank

\* A variant that accepts a list of one word.
TooFewWords_One(wl) ==
    wl \notin DOMAIN all_words \/ Len(all_words[wl]) < 1

\* The guard of start_game: too few words of the requested length.
TooFewWords(wl) ==
    wl \notin DOMAIN all_words \/ Len(all_words[wl]) < 2

\* A variant that takes a changed pattern for a miss.
IsMiss_Inverted(old_pattern, new_pattern) == old_pattern # new_pattern

\* The outcome test of make_guess: the pattern did not change.
IsMiss(old_pattern, new_pattern) == old_pattern = new_pattern

\* A variant that tests the won flag instead.
GameIsOver_WonOnly == won

\* The first guard of make_guess.
GameIsOver == game_over

\* A variant that never finds the letter.
AlreadyGuessed_Never(guess) == FALSE

\* The second guard of make_guess.
AlreadyGuessed(guess) == guess \in guessed_letters

\* A variant that draws the word from the whole list of the session's length.
ChoiceFrom_Dictionary(words) ==
    {all_words[word_length][k] : k \in 1..Len(all_words[word_length])}

\* random.choice(words): any element of the list.
ChoiceFrom(words) == {words[k] : k \in 1..Len(words)}

\* A variant that hands out the list without its last word.
ListCopy_DropLast(words) == SubSeq(words, 1, Len(words) - 1)

\* list.copy(): a new list with the same words in the same order; the
\* session never holds the list object of the index itself.
ListCopy(words) == words

\* Where the session stands: word_length is 0 until a start_game succeeds,
\* and every index key is at least 1.
Phase ==
    IF word_length = 0 THEN "Unstarted"
    ELSE IF ~game_over THEN "InProgress"
    ELSE IF won THEN "Won" ELSE "Lost"

\* What the last call returned (or raised), and the phase it was made in.
Returned(op, value) == [op |-> op, value |-> value, phase |-> Phase]

\* The request threads of the web server.
Threads == {1, 2}

\* A thread that is in no call.
Idle == [pc |-> "idle", guess |-> "", key |-> <<>>, words |-> <<>>,
         miss |-> FALSE]

NoCalls == [t \in Threads |-> Idle]

\* __init__
Init ==
    /\ all_words \in Dictionaries
    /\ word_length = 0
    /\ max_guesses = 0
    /\ guesses_left = 0
    /\ guessed_letters = {}
    /\ current_pattern = <<>>
    /\ possible_words = <<>>
    /\ game_over = FALSE
    /\ won = FALSE
    /\ message = <<"">>
    /\ ret = [op |-> "init", value |-> "none", phase |-> "Unstarted"]
    /\ calls = NoCalls

start_game(wl, mg) ==
    IF TooFewWords(wl)
    THEN /\ ret' = Returned("start_game", "False")
         /\ UNCHANGED <<all_words, session, message, calls>>
    ELSE /\ word_length' = wl
         /\ max_guesses' = mg
         /\ guesses_left' = mg
         /\ guessed_letters' = {}
         /\ current_pattern' = AllBlank(wl)
         /\ possible_words' = ListCopy(all_words[wl])
         /\ game_over' = FALSE
         /\ won' = FALSE
         /\ message' = <<"Game started", wl, mg>>
         /\ ret' = Returned("start_game", "True")
         /\ UNCHANGED <<all_words, calls>>

\* The accepted branch of make_guess, lines 190-225, for the lowercased guess.
ApplyGuess(guess) ==
    LET patterns == get_word_patterns(possible_words, current_pattern, guess)
        best == MaxItem(patterns)
        miss == IsMiss(current_pattern, best.key)
        left == IF miss THEN guesses_left - 1 ELSE guesses_left
    IN  /\ guessed_letters' = guessed_letters \cup {guess}
        /\ current_pattern' = best.key
        /\ possible_words' = best.words
        /\ guesses_left' = left
        /\ IF ~HasBlank(best.key)
           THEN /\ game_over' = TRUE
                /\ won' = TRUE
                /\ message' = <<"Congratulations", best.key>>
           ELSE IF left <= 0
           THEN /\ game_over' = TRUE
                /\ won' = won
                /\ \E final_word \in ChoiceFrom(best.words) :
                      message' = <<"Game over", final_word>>
           ELSE /\ UNCHANGED <<game_over, won>>
                /\ message' = IF miss THEN <<"Sorry", guess, left>>
                                      ELSE <<"Good guess", guess>>
        /\ ret' = Returned("make_guess", "True")
        /\ UNCHANGED <<all_words, word_length, max_guesses, calls>>

make_guess(g) ==
    LET guess == Lower(g) IN
    IF GameIsOver
    THEN /\ message' = <<"Game is already over">>
         /\ ret' = Returned("make_guess", "False")
         /\ UNCHANGED <<all_words, session, calls>>
    ELSE IF AlreadyGuessed(guess)
    THEN /\ message' = <<"You already guessed", guess>>
         /\ ret' = Returned("make_guess", "False")
         /\ UNCHANGED <<all_words, session, calls>>
    ELSE IF possible_words = <<>>
    THEN \* max() of an empty dict raises ValueError after the letter was added
         /\ guessed_letters' = guessed_letters \cup {guess}
         /\ ret' = Returned("make_guess", "ValueError")
         /\ UNCHANGED <<all_words, word_length, max_guesses, guesses_left,
                        current_pattern, possible_words, game_over, won,
                        message, calls>>
    ELSE ApplyGuess(guess)

Next ==
    \/ \E wl \in LengthInputs, mg \in BudgetInputs : start_game(wl, mg)
    \/ \E g \in GuessInputs : make_guess(g)

Spec == Init /\ [][Next]_vars

-----------------------------------------------------------------------------
(* The four-word game: the index {4: {bass, cats, dogs, cars}} *)

ScenarioWords == { <<"b","a","s","s">>, <<"c","a","t","s">>,
                   <<"d","o","g","s">>, <<"c","a","r","s">> }

\* The index in every order in which the file can list the four words.
ScenarioIndexes ==
    {(4 :> ws) : ws \in {f \in [1..4 -> ScenarioWords] :
                            \A i, j \in 1..4 : f[i] = f[j] => i = j}}

\* __init__ over the four-word index.
InitScenario ==
    /\ all_words \in ScenarioIndexes
    /\ word_length = 0
    /\ max_guesses = 0
    /\ guesses_left = 0
    /\ guessed_letters = {}
    /\ current_pattern = <<>>
    /\ possible_words = <<>>
    /\ game_over = FALSE
    /\ won = FALSE
    /\ message = <<"">>
    /\ ret = [op |-> "init", value |-> "none", phase |-> "Unstarted"]
    /\ calls = NoCalls

\* The calls of the scenario, in any order and any number: games of 4 letters
\* (5 is no key) with 6 guesses, and the guesses a, z and s.
NextScenario ==
    \/ \E wl \in {4, 5}, mg \in {6} : start_game(wl, mg)
    \/ \E g \in {"a", "z", "s"} : make_guess(g)

SpecScenario == InitScenario /\ [][NextScenario]_vars

-----------------------------------------------------------------------------
(* get_available_lengths *)

\* The shortest length get_available_lengths lists.
MinListedLength == 3

\* A length is listed when it has more words than this.
ListedAbove == 10

\* A variant that lists a length with exactly ListedAbove words.
IsListed_AtLeast(length, words) ==
    length >= MinListedLength /\ Len(words) >= ListedAbove

\* The filter of the list comprehension.
IsListed(length, words) ==
    length >= MinListedLength /\ Len(words) > ListedAbove

RECURSIVE Sorted(_)
\* sorted() on a collection of distinct integers.
Sorted(S) ==
    IF S = {} THEN <<>>
    ELSE LET least == CHOOSE x \in S : \A y \in S : x <= y
         IN  <<least>> \o Sorted(S \ {least})

\* The list get_available_lengths returns.
AvailableLengths ==
    Sorted({L \in DOMAIN all_words : IsListed(L, all_words[L])})

get_available_lengths ==
    /\ ret' = [op |-> "get_available_lengths", value |-> AvailableLengths,
               phase |-> Phase]
    /\ UNCHANGED <<all_words, session, message, calls>>

\* Eleven different first letters, to tell the words of a list apart.
FirstLetters == <<"a", "b", "c", "d", "e", "f", "g", "h", "i", "j", "k">>

\* The n first words of a given length: a first letter, then a's.
ListOf(length, n) ==
    [j \in 1..n |-> [i \in 1..length |-> IF i = 1 THEN FirstLetters[j]
                                                   ELSE "a"]]

\* Lengths around the shortest listed one.
IndexLengths == (MinListedLength - 1)..(MinListedLength + 1)

\* Word counts around both thresholds (2 for start_game, ListedAbove for the
\* listing); 0 stands for a length that is no key of the index.
IndexCounts == {0, 1, 2, ListedAbove, ListedAbove + 1}

\* The non-empty indexes with these lengths and counts.
LengthIndexes ==
    {[L \in {K \in IndexLengths : c[K] > 0} |-> ListOf(L, c[L])] :
        c \in {d \in [IndexLengths -> IndexCounts] :
                  \E K \in IndexLengths : d[K] > 0}}

\* __init__ over these indexes.
InitLengths ==
    /\ all_words \in LengthIndexes
    /\ word_length = 0
    /\ max_guesses = 0
    /\ guesses_left = 0
    /\ guessed_letters = {}
    /\ current_pattern = <<>>
    /\ possible_words = <<>>
    /\ game_over = FALSE
    /\ won = FALSE
    /\ message = <<"">>
    /\ ret = [op |-> "init", value |-> "none", phase |-> "Unstarted"]
    /\ calls = NoCalls

\* A caller that lists the lengths and starts games.
NextLengths ==
    \/ get_available_lengths
    \/ \E wl \in IndexLengths, mg \in {1, 2} : start_game(wl, mg)

SpecLengths == InitLengths /\ [][NextLengths]_vars

-----------------------------------------------------------------------------
(* Two request threads on the one module-level game *)

(* The web server answers each request on a thread of its own and every     *)
(* route works on the same EvilHangman instance, with no lock.  A thread    *)
(* can be suspended between any two statements of make_guess; the steps     *)
(* below are make_guess cut at five such places.  Each step alone is as in  *)
(* the code, so every interleaving of the steps is one the program can run. *)

\* Lines 177-187: lower the guess and test both guards.
GuessBegin(t, g) ==
    LET guess == Lower(g) IN
    /\ calls[t].pc = "idle"
    /\ IF GameIsOver
       THEN /\ message' = <<"Game is already over">>
            /\ ret' = Returned("make_guess", "False")
            /\ UNCHANGED <<all_words, session, calls>>
       ELSE IF AlreadyGuessed(guess)
       THEN /\ message' = <<"You already guessed", guess>>
            /\ ret' = Returned("make_guess", "False")
            /\ UNCHANGED <<all_words, session, calls>>
       ELSE /\ calls' = [calls EXCEPT ![t] = [Idle EXCEPT !.pc = "add",
                                                         !.guess = guess]]
            /\ UNCHANGED <<all_words, session, message, ret>>

\* Line 190: add the letter.
GuessAdd(t) ==
    /\ calls[t].pc = "add"
    /\ guessed_letters' = guessed_letters \cup {calls[t].guess}
    /\ calls' = [calls EXCEPT ![t].pc = "group"]
    /\ UNCHANGED <<all_words, word_length, max_guesses, guesses_left,
                   current_pattern, possible_words, game_over, won, message,
                   ret>>

\* Lines 193-198: group the candidates and pick the largest group; max()
\* raises ValueError on an empty dict and the call ends there.
GuessGroup(t) ==
    /\ calls[t].pc = "group"
    /\ IF possible_words = <<>>
       THEN /\ calls' = [calls EXCEPT ![t] = Idle]
            /\ ret' = Returned("make_guess", "ValueError")
       ELSE LET best == MaxItem(get_word_patterns(possible_words,
                                                  current_pattern,
                                                  calls[t].guess))
            IN  /\ calls' = [calls EXCEPT ![t].pc = "update",
                                          ![t].key = best.key,
                                          ![t].words = best.words]
                /\ UNCHANGED ret
    /\ UNCHANGED <<all_words, session, message>>

\* Lines 201-204: store the chosen pattern and words, remembering whether
\* the pattern changed.
GuessUpdate(t) ==
    /\ calls[t].pc = "update"
    /\ current_pattern' = calls[t].key
    /\ possible_words' = calls[t].words
    /\ calls' = [calls EXCEPT ![t].pc = "score",
                              ![t].miss = IsMiss(current_pattern,
                                                 calls[t].key)]
    /\ UNCHANGED <<all_words, word_length, max_guesses, guesses_left,
                   guessed_letters, game_over, won, message, ret>>

\* Lines 208-212: count a miss.
GuessScore(t) ==
    /\ calls[t].pc = "score"
    /\ IF calls[t].miss
       THEN /\ guesses_left' = guesses_left - 1
            /\ message' = <<"Sorry", calls[t].guess, guesses_left - 1>>
       ELSE /\ guesses_left' = guesses_left
            /\ message' = <<"Good guess", calls[t].guess>>
    /\ calls' = [calls EXCEPT ![t].pc = "finish"]
    /\ UNCHANGED <<all_words, word_length, max_guesses, guessed_letters,
                   current_pattern, possible_words, game_over, won, ret>>

\* Lines 215-225: the termination check, and return True.
GuessFinish(t) ==
    /\ calls[t].pc = "finish"
    /\ IF ~HasBlank(current_pattern)
       THEN /\ game_over' = TRUE
            /\ won' = TRUE
            /\ message' = <<"Congratulations", current_pattern>>
       ELSE IF guesses_left <= 0
       THEN /\ game_over' = TRUE
            /\ won' = won
            /\ \E final_word \in ChoiceFrom(possible_words) :
                  message' = <<"Game over", final_word>>
       ELSE UNCHANGED <<game_over, won, message>>
    /\ calls' = [calls EXCEPT ![t] = Idle]
    /\ ret' = [op |-> "make_guess", value |-> "True", phase |-> "InProgress"]
    /\ UNCHANGED <<all_words, word_length, max_guesses, guesses_left,
                   guessed_letters, current_pattern, possible_words>>

\* Two indexes for the threads: two-letter lists that a guess splits, and
\* the three-letter list.
ThreadIndexes ==
    {(2 :> ws) @@ (3 :> Words3) :
        ws \in { << <<"a","b">>, <<"b","a">>, <<"b","b">> >>,
                 << <<"a","a">>, <<"a","b">> >> }}

\* __init__ at the import of the module.
InitThreads ==
    /\ all_words \in ThreadIndexes
    /\ word_length = 0
    /\ max_guesses = 0
    /\ guesses_left = 0
    /\ guessed_letters = {}
    /\ current_pattern = <<>>
    /\ possible_words = <<>>
    /\ game_over = FALSE
    /\ won = FALSE
    /\ message = <<"">>
    /\ ret = [op |-> "init", value |-> "none", phase |-> "Unstarted"]
    /\ calls = NoCalls

\* The requests: start_game (taken as one step) and the steps of make_guess
\* on either thread.
NextThreads ==
    \/ \E wl \in {2, 3}, mg \in {1, 2} : start_game(wl, mg)
    \/ \E t \in Threads, g \in {"a", "b"} : GuessBegin(t, g)
    \/ \E t \in Threads : GuessAdd(t)
    \/ \E t \in Threads : GuessGroup(t)
    \/ \E t \in Threads : GuessUpdate(t)
    \/ \E t \in Threads : GuessScore(t)
    \/ \E t \in Threads : GuessFinish(t)

SpecThreads == InitThreads /\ [][NextThreads]_vars

-----------------------------------------------------------------------------
(* The command-line engine: class EvilHangman of src/evil_hangman_cli.py *)

(* The command-line program has an engine class of its own.  Its methods    *)
(* are written here as functions from the fields of the object before the   *)
(* call to the fields after it and the value returned; what they print is   *)
(* output and no field.  The index is the one loaded from the same file.    *)

\* __init__ of the command-line engine: it has no message field.
cli_init ==
    [word_length |-> 0, max_guesses |-> 0, guesses_left |-> 0,
     guessed_letters |-> {}, current_pattern |-> <<>>,
     possible_words |-> <<>>, game_over |-> FALSE, won |-> FALSE]

\* start_game of the command-line engine.
cli_start_game(self, wl, mg) ==
    IF wl \notin DOMAIN all_words \/ Len(all_words[wl]) < 2
    THEN [self |-> self, value |-> "False"]
    ELSE [self |-> [word_length |-> wl, max_guesses |-> mg,
                    guesses_left |-> mg, guessed_letters |-> {},
                    current_pattern |-> [i \in 1..wl |-> "_"],
                    possible_words |-> all_words[wl],
                    game_over |-> FALSE, won |-> FALSE],
          value |-> "True"]

RECURSIVE cli_get_word_patterns(_, _, _, _)
\* _get_word_patterns of the command-line engine: the loop over the words
\* still to group, each put under the copy of the pattern with the guess
\* written where the word holds it.
cli_get_word_patterns(words, pattern, guess, patterns) ==
    IF words = <<>> THEN patterns
    ELSE LET word == Head(words)
             key  == [i \in 1..Len(pattern) |->
                         IF i <= Len(word) /\ word[i] = guess
                         THEN guess ELSE pattern[i]]
         IN  cli_get_word_patterns(Tail(words), pattern, guess,
                                   DictAppend(patterns, key, word))

\* A variant that never counts a miss.
cli_Missed_Never(old_pattern, new_pattern) == FALSE

\* The outcome test of the command-line make_guess.
cli_Missed(old_pattern, new_pattern) == old_pattern = new_pattern

\* make_guess of the command-line engine.
cli_make_guess(self, g) ==
    LET guess == Lower(g) IN
    IF self.game_over
    THEN [self |-> self, value |-> "False"]
    ELSE IF guess \in self.guessed_letters
    THEN [self |-> self, value |-> "False"]
    ELSE IF self.possible_words = <<>>
    THEN \* max() raises ValueError after the letter was added
         [self |-> [self EXCEPT !.guessed_letters = @ \cup {guess}],
          value |-> "ValueError"]
    ELSE LET patterns == cli_get_word_patterns(self.possible_words,
                                               self.current_pattern,
                                               guess, <<>>)
             best == MaxItem(patterns)
             left == IF cli_Missed(self.current_pattern, best.key)
                     THEN self.guesses_left - 1 ELSE self.guesses_left
             full == \A i \in 1..Len(best.key) : best.key[i] # "_"
         IN  [self |-> [self EXCEPT
                           !.guessed_letters = @ \cup {guess},
                           !.current_pattern = best.key,
                           !.possible_words = best.words,
                           !.guesses_left = left,
                           !.game_over = full \/ left <= 0,
                           !.won = IF full THEN TRUE ELSE @],
              value |-> "True"]

-----------------------------------------------------------------------------
(* Properties *)

\* The last call was a make_guess that returned True.
GuessAccepted == ret.op = "make_guess" /\ ret.value = "True"

\* The last call was a start_game that returned True.
StartAccepted == ret.op = "start_game" /\ ret.value = "True"

\* The induced pattern as the specification words it: the pattern with every
\* position where the word holds the letter rewritten to the letter.
Overlay(word, pattern, letter) ==
    [i \in DOMAIN pattern |-> IF word[i] = letter THEN letter ELSE pattern[i]]

\* The words of a list that induce pattern p, in the order of the list.
GroupOf(words, pattern, letter, p) ==
    LET Induces(w) == Overlay(w, pattern, letter) = p
    IN  SelectSeq(words, Induces)

\* C1: after every accepted make_guess(letter) the new candidates are exactly
\* one non-empty group of the partition of the previous candidates by induced
\* pattern, the new pattern is that group's induced pattern, and no other
\* group holds strictly more words.
C1_LargestGroupChosen ==
    [][GuessAccepted' =>
        \E letter \in guessed_letters' \ guessed_letters :
            /\ guessed_letters' = guessed_letters \cup {letter}
            /\ possible_words' # <<>>
            /\ possible_words' =
                 GroupOf(possible_words, current_pattern, letter,
                         current_pattern')
            /\ \A j \in 1..Len(possible_words) :
                 Len(GroupOf(possible_words, current_pattern, letter,
                             Overlay(possible_words[j], current_pattern,
                                     letter)))
                   <= Len(possible_words')]_vars

\* C1 witness: an accepted guess split the candidates and kept a group of
\* several words.
C1_Witness ==
    /\ GuessAccepted
    /\ Len(possible_words) >= 2
    /\ Len(possible_words) < Len(all_words[word_length])

\* C2: every candidate is consistent with the pattern: at a revealed position
\* it holds that letter, at a blank position its letter was not guessed.
C2_CandidatesConsistent ==
    \A j \in 1..Len(possible_words) :
        /\ Len(possible_words[j]) = Len(current_pattern)
        /\ \A i \in 1..Len(current_pattern) :
              IF current_pattern[i] # "_"
              THEN possible_words[j][i] = current_pattern[i]
              ELSE possible_words[j][i] \notin guessed_letters

\* C2 witness: a started session with a revealed position, a blank position
\* and a guessed letter of the dictionary that the pattern does not show.
C2_Witness ==
    /\ word_length > 0
    /\ possible_words # <<>>
    /\ \E i, k \in 1..Len(current_pattern) :
          current_pattern[i] # "_" /\ current_pattern[k] = "_"
    /\ \E g \in guessed_letters \cap {"a", "b", "c"} :
          \A i \in 1..Len(current_pattern) : current_pattern[i] # g

\* C3: after a successful start_game, the candidates are non-empty whenever
\* the game is not over.
C3_CandidatesNonEmpty ==
    (word_length > 0 /\ ~game_over) => Len(possible_words) >= 1

\* C3 witness: an accepted guess narrowed the candidates to a single word and
\* the game goes on.
C3_Witness ==
    /\ GuessAccepted
    /\ ~game_over
    /\ Len(possible_words) = 1

\* C4: an accepted make_guess decrements guesses_left by exactly 1 if the
\* pattern stayed the same and leaves it alone if the pattern changed; only
\* an accepted make_guess or a successful start_game changes guesses_left.
C4_DecrementIffMiss ==
    [][/\ GuessAccepted' =>
             IF current_pattern' = current_pattern
             THEN guesses_left' = guesses_left - 1
             ELSE guesses_left' = guesses_left
       /\ guesses_left' # guesses_left => (GuessAccepted' \/ StartAccepted')
      ]_vars

\* C4 witness: a session that has seen a hit and exactly one miss.
C4_Witness ==
    /\ GuessAccepted
    /\ guesses_left = max_guesses - 1
    /\ \E i \in 1..Len(current_pattern) : current_pattern[i] # "_"
    /\ Cardinality(guessed_letters) = 2

\* C5: after an accepted make_guess, a pattern without blanks means game over
\* and won; otherwise guesses_left <= 0 means game over and not won; otherwise
\* the game is neither over nor won.
C5_TerminationCheck ==
    GuessAccepted =>
        IF \A i \in 1..Len(current_pattern) : current_pattern[i] # "_"
        THEN game_over /\ won
        ELSE IF guesses_left <= 0
        THEN game_over /\ ~won
        ELSE ~game_over /\ ~won

\* C5 witness: a guess ended the game in a loss after a hit earlier on, so
\* the pattern shows a letter and a blank.
C5_Witness ==
    /\ GuessAccepted
    /\ game_over /\ ~won
    /\ max_guesses > 0
    /\ \E i, k \in 1..Len(current_pattern) :
          current_pattern[i] # "_" /\ current_pattern[k] = "_"

\* C6: a successful start_game(word_length, max_guesses), from any phase,
\* leaves an all-blank pattern of that length, the full word list of that
\* length, guesses_left = max_guesses, no guessed letter, and the game
\* neither over nor won.
C6_StartResets ==
    [][\A wl \in LengthInputs, mg \in BudgetInputs :
          (start_game(wl, mg) /\ StartAccepted') =>
              /\ word_length' = wl
              /\ max_guesses' = mg
              /\ guesses_left' = mg
              /\ guessed_letters' = {}
              /\ current_pattern' = [i \in 1..wl |-> "_"]
              /\ possible_words' = all_words[wl]
              /\ game_over' = FALSE
              /\ won' = FALSE]_vars

\* C6 witness: a game started from a lost session.
C6_Witness ==
    /\ StartAccepted
    /\ ret.phase = "Lost"

\* C7: start_game with a length that is no key of the index, or that has
\* fewer than 2 words, returns False and leaves the session as it was.
C7_BadLengthRejected ==
    [][\A wl \in LengthInputs, mg \in BudgetInputs :
          (/\ wl \notin DOMAIN all_words \/ Len(all_words[wl]) < 2
           /\ start_game(wl, mg)) =>
              /\ ret'.op = "start_game" /\ ret'.value = "False"
              /\ UNCHANGED session]_vars

\* C7 witness: a start_game failed during a game in which a letter was
\* already guessed.
C7_Witness ==
    /\ ret.op = "start_game" /\ ret.value = "False"
    /\ ret.phase = "InProgress"
    /\ guessed_letters # {}

\* C8: start_game with a non-positive max_guesses returns failure, so every
\* started game has a positive budget and no session that is not over has
\* guesses_left <= 0.
C8_NonPositiveBudgetRejected ==
    /\ StartAccepted => max_guesses > 0
    /\ (word_length > 0 /\ ~game_over) => guesses_left > 0

\* C9: once the game is over it stays over until a start_game succeeds, and
\* every make_guess in a won or lost session, for any letter, returns False
\* and leaves pattern, candidates, guesses_left, guessed letters and both
\* flags as they were.
C9_TerminalRejects ==
    [][game_over =>
        /\ ~game_over' => StartAccepted'
        /\ \A g \in GuessInputs :
              make_guess(g) =>
                  /\ ret'.op = "make_guess" /\ ret'.value = "False"
                  /\ UNCHANGED <<current_pattern, possible_words,
                                 guesses_left, guessed_letters, game_over,
                                 won>>]_vars

\* C9 witness: a make_guess was rejected in a lost session that still has an
\* unguessed letter of the inputs.
C9_Witness ==
    /\ ret.op = "make_guess" /\ ret.value = "False"
    /\ ret.phase = "Lost"
    /\ game_over /\ ~won
    /\ "a" \notin guessed_letters

\* C10: in a game in progress, make_guess with a letter already guessed
\* returns False and leaves pattern, candidates, guesses_left, guessed
\* letters and both flags as they were.
C10_DuplicateRejected ==
    [][\A g \in GuessInputs :
          (/\ word_length > 0 /\ ~game_over
           /\ g \in guessed_letters
           /\ make_guess(g)) =>
              /\ ret'.op = "make_guess" /\ ret'.value = "False"
              /\ UNCHANGED <<current_pattern, possible_words, guesses_left,
                             guessed_letters, game_over, won>>]_vars

\* C10 witness: a make_guess was rejected as a duplicate in a game in
\* progress.
C10_Witness ==
    /\ ret.op = "make_guess" /\ ret.value = "False"
    /\ ret.phase = "InProgress"
    /\ message[1] = "You already guessed"
    /\ message[2] \in guessed_letters

\* The elements of a list.
Range(seq) == {seq[k] : k \in 1..Len(seq)}

\* The last call was a make_guess, whatever it returned.
GuessCalled == ret.op = "make_guess"

\* C11: across every make_guess of a session the candidates do not grow in
\* number and the candidates after the guess are among those before it.
C11_CandidatesNeverGrow ==
    [][GuessCalled' =>
          /\ Len(possible_words') <= Len(possible_words)
          /\ Range(possible_words') \subseteq Range(possible_words)]_vars

\* C11 witness: three accepted guesses, the last of which left a single
\* candidate of a list of five.
C11_Witness ==
    /\ GuessAccepted
    /\ word_length = 3
    /\ Cardinality(guessed_letters) = 3
    /\ Len(possible_words) = 1

\* C12: across make_guess calls a revealed position keeps its letter (so the
\* number of blanks never increases), and the pattern always has word_length
\* positions.
C12_BlanksNeverReturn ==
    [][/\ Len(current_pattern') = word_length'
       /\ GuessCalled' =>
             /\ Len(current_pattern') = Len(current_pattern)
             /\ \A i \in 1..Len(current_pattern) :
                   current_pattern[i] # "_" =>
                       current_pattern'[i] = current_pattern[i]
             /\ Cardinality({i \in 1..Len(current_pattern') :
                                current_pattern'[i] = "_"})
                  <= Cardinality({i \in 1..Len(current_pattern) :
                                     current_pattern[i] = "_"})]_vars

\* C12 witness: the pattern shows two different letters, revealed by two
\* different guesses, and still has a blank.
C12_Witness ==
    /\ GuessAccepted
    /\ \E i, k, n \in 1..Len(current_pattern) :
          /\ current_pattern[i] # "_" /\ current_pattern[k] # "_"
          /\ current_pattern[i] # current_pattern[k]
          /\ current_pattern[n] = "_"

\* The lowercase letters a caller can guess; every letter of every word of
\* the index is one of them.
Alphabet == {Lower(g) : g \in GuessInputs}

\* C13: a started game is over after at most as many accepted guesses of
\* distinct letters as the alphabet has letters (26 for a-z, 3 here),
\* whatever max_guesses is: while the game is on, fewer letters than the
\* alphabet holds have been guessed.
C13_OverWithinAlphabet ==
    /\ \A L \in DOMAIN all_words : \A j \in 1..Len(all_words[L]) :
          Range(all_words[L][j]) \subseteq Alphabet
    /\ (word_length > 0 /\ ~game_over) =>
          /\ guessed_letters \subseteq Alphabet
          /\ Cardinality(guessed_letters) < Cardinality(Alphabet)

\* C13 witness: a game with a budget larger than the alphabet ended with the
\* guess of the last letter of the alphabet.
C13_Witness ==
    /\ GuessAccepted
    /\ game_over
    /\ max_guesses > Cardinality(Alphabet)
    /\ guessed_letters = Alphabet

\* C14: the word revealed at a loss is one of the candidates of that moment,
\* which are not empty, and it agrees with the final pattern: it holds the
\* letter of every revealed position and no guessed letter elsewhere.
C14_RevealedWordConsistent ==
    message[1] = "Game over" =>
        /\ game_over /\ ~won
        /\ possible_words # <<>>
        /\ message[2] \in Range(possible_words)
        /\ Len(message[2]) = Len(current_pattern)
        /\ \A i \in 1..Len(current_pattern) :
              IF current_pattern[i] # "_"
              THEN message[2][i] = current_pattern[i]
              ELSE message[2][i] \notin guessed_letters

\* C14 witness: a loss with several different candidates left, where the
\* revealed word is not the first of them, after a hit earlier in the game.
C14_Witness ==
    /\ message[1] = "Game over"
    /\ Cardinality(Range(possible_words)) >= 2
    /\ message[2] # possible_words[1]
    /\ \E i \in 1..Len(current_pattern) : current_pattern[i] # "_"

\* C15: every call of start_game and make_guess, in every phase, returns
\* True or False and never raises, and a call that does not return True
\* leaves the session as it was.
C15_NoFault ==
    [][/\ ret'.value \in {"True", "False"}
       /\ ret'.value # "True" => UNCHANGED session]_vars

\* C17: in a game in progress whose candidates are all one word, a guess of a
\* letter of that word not guessed before reveals every occurrence of the
\* letter, changes the pattern, leaves guesses_left and the candidates alone,
\* and when no blank is left the game is over and won in that call.
C17_SingleCandidateHit ==
    [][\A g \in {"a", "b", "c"} :
          (/\ word_length > 0 /\ ~game_over
           /\ Cardinality(Range(possible_words)) = 1
           /\ g \notin guessed_letters
           /\ g \in Range(possible_words[1])
           /\ make_guess(g)) =>
              /\ GuessAccepted'
              /\ current_pattern' # current_pattern
              /\ current_pattern' =
                   [i \in 1..word_length |->
                       IF possible_words[1][i] = g THEN g
                       ELSE current_pattern[i]]
              /\ guesses_left' = guesses_left
              /\ possible_words' = possible_words
              /\ (\A i \in 1..word_length : current_pattern'[i] # "_")
                    => (game_over' /\ won')]_vars

\* C17 witness: a three-letter game won by three hits in a row; the list has
\* no duplicate, so the last two guesses met a single candidate.
C17_Witness ==
    /\ GuessAccepted
    /\ word_length = 3
    /\ won
    /\ Len(possible_words) = 1
    /\ Cardinality(guessed_letters) = 3
    /\ guesses_left = max_guesses

\* C20: the session becomes lost only by a miss: the accepted guess that ends
\* a started game in a loss leaves the pattern unchanged and brings
\* guesses_left from 1 to 0; a hit never ends the game in a loss.
C20_LostOnlyByMiss ==
    [][(~game_over /\ game_over' /\ ~won') =>
          /\ GuessAccepted'
          /\ current_pattern' = current_pattern
          /\ guesses_left' = guesses_left - 1]_vars

\* The sizes of the groups into which a guess of the letter splits the
\* candidates.
GroupSizes(letter) ==
    {Len(GroupOf(possible_words, current_pattern, letter,
                 Overlay(possible_words[j], current_pattern, letter))) :
        j \in 1..Len(possible_words)}

\* The steps of the four-word game, each taken from the state the one before
\* leaves: start_game(4, 6), then the guesses a, z and s, the last of which
\* leaves the candidates lastWords.
ScenarioSteps(lastWords) ==
    /\ (start_game(4, 6) /\ StartAccepted') =>
          /\ current_pattern' = <<"_", "_", "_", "_">>
          /\ Len(possible_words') = 4
          /\ Range(possible_words') = ScenarioWords
          /\ guesses_left' = 6
    /\ (/\ word_length = 4 /\ max_guesses = 6 /\ guessed_letters = {}
        /\ make_guess("a")) =>
          /\ GuessAccepted'
          /\ GroupSizes("a") = {3, 1}
          /\ current_pattern' = <<"_", "a", "_", "_">>
          /\ Len(possible_words') = 3
          /\ Range(possible_words') =
               { <<"b","a","s","s">>, <<"c","a","t","s">>,
                 <<"c","a","r","s">> }
          /\ guesses_left' = 6
    /\ (/\ word_length = 4 /\ max_guesses = 6 /\ guessed_letters = {"a"}
        /\ make_guess("z")) =>
          /\ GuessAccepted'
          /\ GroupSizes("z") = {3}
          /\ current_pattern' = current_pattern
          /\ current_pattern' = <<"_", "a", "_", "_">>
          /\ possible_words' = possible_words
          /\ guesses_left' = 5
    /\ (/\ word_length = 4 /\ max_guesses = 6
        /\ guessed_letters = {"a", "z"}
        /\ make_guess("s")) =>
          /\ GuessAccepted'
          /\ GroupSizes("s") = {2, 1}
          /\ current_pattern' = <<"_", "a", "_", "s">>
          /\ Len(possible_words') = 2
          /\ Range(possible_words') = lastWords
          /\ guesses_left' = 5
          /\ ~game_over'

\* C16 as claimed: with the index {4: {bass, cats, dogs, cars}},
\* start_game(4, 6) gives pattern ____ and 4 candidates; guess a gives _a__,
\* {bass, cats, cars} and guesses_left 6; then guess z leaves the pattern and
\* gives guesses_left 5; then guess s splits into groups of sizes {2, 1} and
\* gives _a_s with {bass, cats}.
C16_AsClaimed ==
    [][ScenarioSteps({ <<"b","a","s","s">>, <<"c","a","t","s">> })]_vars

\* C16 amended: the same game, but the guess s leaves {cats, cars}: bass
\* holds s twice and induces _ass, a group of its own, while cats and cars
\* both induce _a_s.
C16_FourWordGame ==
    [][ScenarioSteps({ <<"c","a","t","s">>, <<"c","a","r","s">> })]_vars

\* C16 witness: the state after start_game(4, 6) and the guesses a, z, s.
C16_Witness ==
    /\ GuessAccepted
    /\ word_length = 4 /\ max_guesses = 6
    /\ guessed_letters = {"a", "z", "s"}
    /\ current_pattern = <<"_", "a", "_", "s">>
    /\ Range(possible_words) =
          { <<"c","a","t","s">>, <<"c","a","r","s">> }
    /\ guesses_left = 5
    /\ message[1] = "Good guess"
    /\ message[2] = "s"

\* C18: get_available_lengths returns, in strictly ascending order, exactly
\* the lengths L of the index with L >= 3 and more than 10 words; a length
\* with 2 to 10 words is not listed, yet start_game accepts it.
C18_ListedLengths ==
    [][/\ ret'.op = "get_available_lengths" =>
             /\ \A i, j \in 1..Len(ret'.value) :
                   i < j => ret'.value[i] < ret'.value[j]
             /\ Range(ret'.value) =
                  {L \in DOMAIN all_words :
                      L >= 3 /\ Len(all_words[L]) > 10}
             /\ \A L \in DOMAIN all_words :
                   Len(all_words[L]) \in 2..10 => L \notin Range(ret'.value)
       /\ \A wl \in IndexLengths, mg \in {1, 2} :
             (/\ wl \in DOMAIN all_words
              /\ Len(all_words[wl]) \in 2..10
              /\ ret'.op = "start_game"
              /\ start_game(wl, mg)) =>
                 (StartAccepted' /\ word_length' = wl)]_vars

\* C18 witness: a game is on for length 3, which has exactly 10 words, and
\* the listing just returned holds length 4 alone.
C18_Witness ==
    /\ ret.op = "get_available_lengths"
    /\ ret.value = <<4>>
    /\ 3 \in DOMAIN all_words
    /\ Len(all_words[3]) = 10
    /\ word_length = 3
    /\ ~game_over

\* The guessed letters the pattern does not show: in a run of whole calls,
\* one after the other, each of them was a miss and cost one guess.
MissedLetters ==
    {g \in guessed_letters :
        \A i \in 1..Len(current_pattern) : current_pattern[i] # g}

\* C19: calls run one at a time, so whenever no call is in progress the
\* session is as some sequence of whole calls leaves it: the pattern has
\* word_length positions, every candidate is consistent with the pattern, and
\* guesses_left is max_guesses less one for each missed letter.
C19_CallsAreAtomic ==
    (word_length > 0 /\ \A t \in Threads : calls[t].pc = "idle") =>
        /\ Len(current_pattern) = word_length
        /\ \A j \in 1..Len(possible_words) :
              /\ Len(possible_words[j]) = Len(current_pattern)
              /\ \A i \in 1..Len(current_pattern) :
                    IF current_pattern[i] # "_"
                    THEN possible_words[j][i] = current_pattern[i]
                    ELSE possible_words[j][i] \notin guessed_letters
        /\ guesses_left = max_guesses - Cardinality(MissedLetters)

\* The size of the group of the j-th candidate under a guess of the letter.
GroupSizeAt(j, letter) ==
    Len(GroupOf(possible_words, current_pattern, letter,
                Overlay(possible_words[j], current_pattern, letter)))

\* The earliest candidate that lies in a group of the largest size: it is
\* the first word of that group, and no group of that size starts before it.
EarliestLargest(letter) ==
    CHOOSE j \in 1..Len(possible_words) :
        /\ \A k \in 1..Len(possible_words) :
              GroupSizeAt(k, letter) <= GroupSizeAt(j, letter)
        /\ \A k \in 1..(j - 1) :
              GroupSizeAt(k, letter) < GroupSizeAt(j, letter)

\* C21: the selection step is a function of the ordered candidate list, the
\* pattern, the guessed letter and guesses_left: make_guess of a new letter
\* in a game in progress leaves the pattern induced by the earliest candidate
\* of a largest group (so among groups of equal largest size the one whose
\* first word comes first), that group as candidates, and guesses_left,
\* game_over and won as that pattern fixes them; only the word revealed at a
\* loss is free.
C21_SelectionDeterministic ==
    [][\A g \in GuessInputs :
          (/\ word_length > 0 /\ ~game_over
           /\ Lower(g) \notin guessed_letters
           /\ make_guess(g)) =>
              LET letter == Lower(g)
                  chosen == Overlay(possible_words[EarliestLargest(letter)],
                                    current_pattern, letter)
                  left   == IF chosen = current_pattern
                            THEN guesses_left - 1 ELSE guesses_left
                  full   == \A i \in 1..Len(chosen) : chosen[i] # "_"
              IN  /\ current_pattern' = chosen
                  /\ possible_words' =
                       GroupOf(possible_words, current_pattern, letter,
                               chosen)
                  /\ guesses_left' = left
                  /\ game_over' = (full \/ left <= 0)
                  /\ won' = full
                  /\ (message'[1] = "Game over" =>
                        message'[2] \in Range(possible_words'))]_vars

\* C21 witness: the first guess of a game split the word list into several
\* groups of the same largest size, the kept group is the one that starts
\* first in the list, and a group of that size starts later.
C21_Witness ==
    /\ GuessAccepted
    /\ Cardinality(guessed_letters) = 1
    /\ \E letter \in guessed_letters :
          LET words == all_words[word_length]
              start == AllBlank(word_length)
              SizeOf(w) == Len(GroupOf(words, start, letter,
                                       Overlay(w, start, letter)))
          IN  /\ possible_words # <<>>
              /\ \E j \in 2..Len(words) :
                    /\ Overlay(words[j], start, letter) # current_pattern
                    /\ SizeOf(words[j]) = Len(possible_words)
              /\ \E j \in 1..Len(words) :
                    /\ words[j] = possible_words[1]
                    /\ \A k \in 1..(j - 1) :
                          SizeOf(words[k]) < Len(possible_words)

\* C22: no start_game and no make_guess changes the dictionary index, so the
\* word list under every length stays as loaded, and a start_game for a
\* length with enough words starts from the full list of that length
\* whatever the earlier games narrowed their candidates to.
C22_IndexUnchanged ==
    [][/\ all_words' = all_words
       /\ \A wl \in LengthInputs, mg \in BudgetInputs :
             (/\ wl \in DOMAIN all_words
              /\ Len(all_words[wl]) >= 2
              /\ start_game(wl, mg)) =>
                 /\ StartAccepted'
                 /\ possible_words' = all_words'[wl]
                 /\ possible_words' = all_words[wl]]_vars

\* C22 witness: the index allows games of length 3 only (its other list has
\* a single word), a game of that length was won, which narrowed the five
\* words to one, and the start_game after it holds all five again.
C22_Witness ==
    /\ StartAccepted
    /\ ret.phase = "Won"
    /\ DOMAIN all_words = {2, 3}
    /\ Len(all_words[2]) = 1
    /\ word_length = 3
    /\ Len(possible_words) = 5
    /\ possible_words = all_words[3]

\* The fields of the web engine that the command-line engine has too.
WebFields ==
    [word_length |-> word_length, max_guesses |-> max_guesses,
     guesses_left |-> guesses_left, guessed_letters |-> guessed_letters,
     current_pattern |-> current_pattern, possible_words |-> possible_words,
     game_over |-> game_over, won |-> won]

\* C23: the command-line engine and the web engine are the same state
\* machine: both start with the same fields, and from equal fields every
\* start_game and every make_guess returns the same value in both and leaves
\* equal fields, so after the same calls on the same index they agree on
\* word_length, max_guesses, guesses_left, guessed letters, pattern,
\* candidates, game_over and won.
C23_CliSameMachine ==
    /\ (ret.op = "init" => WebFields = cli_init)
    /\ [][/\ \A wl \in LengthInputs, mg \in BudgetInputs :
                start_game(wl, mg) =>
                   /\ WebFields' = cli_start_game(WebFields, wl, mg).self
                   /\ ret'.value = cli_start_game(WebFields, wl, mg).value
          /\ \A g \in GuessInputs :
                make_guess(g) =>
                   /\ WebFields' = cli_make_guess(WebFields, g).self
                   /\ ret'.value = cli_make_guess(WebFields, g).value]_vars

\* The command-line engine after start_game(3, 2) and the guesses A, b, c
\* and b again.
CliGame ==
    LET started == cli_start_game(cli_init, 3, 2).self
        afterA  == cli_make_guess(started, "A").self
        afterB  == cli_make_guess(afterA, "b").self
        afterC  == cli_make_guess(afterB, "c").self
    IN  cli_make_guess(afterC, "b")

\* C23 witness: the web engine has run a whole game (a miss, a hit on a
\* tie, the winning hit, and a guess rejected after the end), and it holds
\* what the command-line engine holds after the same calls.
C23_Witness ==
    /\ ret.op = "make_guess"
    /\ ret.value = CliGame.value
    /\ ret.phase = "Won"
    /\ WebFields = CliGame.self
    /\ guessed_letters = {"a", "b", "c"}
    /\ guesses_left = 1

\* The misses of the current session: none before the first game, and in a
\* game one for each guessed letter that the pattern does not show.
Misses == IF word_length = 0 THEN 0 ELSE Cardinality(MissedLetters)

\* C24: in every state after a successful start_game in which the game is
\* not over, the pattern has at least one blank and
\* 0 < guesses_left <= max_guesses; in every state guesses_left equals
\* max_guesses minus the number of misses of the current session.
C24_BudgetInvariant ==
    /\ (word_length > 0 /\ ~game_over) =>
          /\ \E i \in 1..Len(current_pattern) : current_pattern[i] = "_"
          /\ 0 < guesses_left
          /\ guesses_left <= max_guesses
    /\ guesses_left = max_guesses - Misses

\* C25: in every state with game_over and won, every remaining candidate is
\* letter for letter the fully revealed pattern, so one distinct candidate is
\* left and it is a word of the index of the session's length; the word the
\* win message announces is that pattern; and won implies game_over.
C25_WonMeansRevealed ==
    /\ won => game_over
    /\ (game_over /\ won) =>
          /\ \A i \in 1..Len(current_pattern) : current_pattern[i] # "_"
          /\ possible_words # <<>>
          /\ \A j \in 1..Len(possible_words) :
                possible_words[j] = current_pattern
          /\ Cardinality(Range(possible_words)) = 1
          /\ Len(current_pattern) = word_length
          /\ current_pattern \in Range(all_words[word_length])
    /\ message[1] = "Congratulations" =>
          /\ game_over /\ won
          /\ message[2] = current_pattern

\* C25 witness: a game won on a list that holds the winning word twice
\* beside another word, so two equal candidates are left.
C25_Witness ==
    /\ GuessAccepted
    /\ game_over /\ won
    /\ message[1] = "Congratulations"
    /\ Len(possible_words) = 2
    /\ Len(all_words[word_length]) = 3
    /\ Cardinality(Range(all_words[word_length])) = 2

====
